---- MODULE Spec2Model ----
(***************************************************************************)
(* Control logic of react-native-scroll-track: the visibility / auto-hide  *)
(* state machine of useScrollTrack and of ScrollableContainer, and the     *)
(* gesture handlers of ScrollProgressTrack that drive them.                *)
(*                                                                         *)
(* React semantics used throughout: a handler runs to completion; every    *)
(* state value it READS is the value captured by the render that created   *)
(* the handler (parameter c, the closure), every setState and every write  *)
(* to a ref goes to the state under construction (parameter s), and refs   *)
(* (autoHideTimer.current, dragStartPosition.current) are read live from   *)
(* s.  The component re-renders after each handler, so the closure of the  *)
(* next handler is the state the previous one left.                        *)
(***************************************************************************)
EXTENDS Integers, Sequences, FiniteSets, TLC

\* ---------------------------------------------------------------- bounds
\* at most this many timers (hide timer + zero-delay deferred callbacks)
\* are pending at once
MaxTimers == 2
\* the clock advances by at most this many milliseconds per step, never
\* past the deadline of a pending timer
TimeStep == 500
\* the largest container / content height of the thumb geometry, in units
MaxExtentUnits == 6
\* the offsets of the round trip divide the scroll range in this many parts
RoundTripParts == 4

\* ------------------------------------------------------- program constants
DefaultFadeOutDelay == 1000
ContainerFadeOutDelay == 1000
minScrollDistanceToShow == 20
ContainerScrollThreshold == 20
MinTrackLength == 100

NoTimer == 0
NoThumbHeight == 0
NoRoundTrip == [stage |-> "none"]
NoTwin == [paired |-> FALSE]
\* the JavaScript value undefined where a number is expected; no height or
\* offset of the program is -1
Undefined == -1

\* what scrollRef.current offers: scrollToOffset and scrollTo are present or
\* not, getScrollResponder is absent or returns a responder with or without
\* scrollTo, _listRef is absent or has scrollToOffset
FlatListHost ==
    [scrollToOffset |-> TRUE, scrollTo |-> FALSE,
     getScrollResponder |-> "absent", listRefScrollToOffset |-> FALSE]

\* no branch of the scroll-to-position chain applies to the host
NoMethod == "none"
\* the hosts scrollRef.current may be: a FlatList, a ScrollView, a list that
\* offers only a scroll responder, one that offers only the underlying
\* _listRef, one whose scroll responder has no scrollTo beside a _listRef,
\* and an object with none of the four methods
Hosts ==
    { FlatListHost,
      [scrollToOffset |-> FALSE, scrollTo |-> TRUE,
       getScrollResponder |-> "withScrollTo", listRefScrollToOffset |-> FALSE],
      [scrollToOffset |-> FALSE, scrollTo |-> FALSE,
       getScrollResponder |-> "withScrollTo", listRefScrollToOffset |-> TRUE],
      [scrollToOffset |-> FALSE, scrollTo |-> FALSE,
       getScrollResponder |-> "absent", listRefScrollToOffset |-> TRUE],
      [scrollToOffset |-> FALSE, scrollTo |-> FALSE,
       getScrollResponder |-> "withoutScrollTo",
       listRefScrollToOffset |-> TRUE],
      [scrollToOffset |-> FALSE, scrollTo |-> FALSE,
       getScrollResponder |-> "absent", listRefScrollToOffset |-> FALSE] }
\* ------------------------------------------------------------ input sets
\* heights reported by layout events (80 is below the usable minimum)
ContainerHeights == {0, 80, 200}
\* heights reported by content-size events: shorter than the viewport,
\* longer by exactly the threshold, and properly scrollable
ContentHeights == {0, 150, 220, 1000}
\* contentOffset.y of scroll events
ScrollOffsets == {0, 400}
\* contact coordinates along the track (negative and beyond-track included)
TouchYs == {-50, 0, 100, 200}
\* cumulative translations reported while the pan recognizer is active
Translations == {-150, 50}
\* fadeOutDelay option values of the hook
FadeOutDelays == {500, DefaultFadeOutDelay}
\* the geometry of the thumb is explored on a grid of extents: heights are
\* multiples of ExtentUnit up to MaxExtentUnits of them, offsets run from one
\* unit below zero to beyond every scroll range
ExtentUnit == 50
GeometryExtents == {ExtentUnit * k : k \in 0..MaxExtentUnits}
GeometryOffsets == {ExtentUnit * k - ExtentUnit : k \in 0..(MaxExtentUnits + 1)}
                       \cup {ExtentUnit \div 2}
\* extents of the round trip, in pixels as fractions: device layouts report
\* fractional heights, so the content may exceed the container by less
\* than a pixel
RoundTripContainers == {[num |-> 100, den |-> 1], [num |-> 200, den |-> 1]}
RoundTripRanges ==
    {[num |-> 0, den |-> 1], [num |-> 1, den |-> 2], [num |-> 1, den |-> 1],
     [num |-> 3, den |-> 2], [num |-> 20, den |-> 1], [num |-> 800, den |-> 1]}
\* host events that lack a field: a layout event without nativeEvent,
\* without nativeEvent.layout or without layout.height, and a scroll event
\* without nativeEvent, contentOffset, contentOffset.y, layoutMeasurement or
\* contentSize
MalformedLayouts == {"noNativeEvent", "noLayout", "noHeight"}
MalformedScrolls == {"noNativeEvent", "noContentOffset", "noY",
                     "noLayoutMeasurement", "noContentSize"}
\* thumbHeight option values: not given, and a floor above the small thumbs
ThumbHeights == {NoThumbHeight, 60}

Impls == {"hook", "container"}

VARIABLES
    \* configuration, fixed at construction
    impl,               \* which entry point owns the track
    alwaysVisible,
    inverted,
    disableGestures,
    fadeOutDelay,
    scrollRefCurrent,   \* TRUE when scrollRef.current is attached to a host
    thumbHeight,        \* the thumbHeight option, NoThumbHeight when not given
    host,               \* the scroll methods the object behind scrollRef has
    \* state of useScrollTrack / ScrollableContainer
    containerHeight,
    contentHeight,
    isScrollTrackVisible,   \* ScrollableContainer only
    isAutoHidden,           \* isAutoHidden / isTrackAutoHidden
    isDragInProgress,       \* the hook's isDragging / isDragInProgress
    autoHideTimer,          \* autoHideTimer.current: a timer id or NoTimer
    timers,                 \* the JS timer queue, in scheduling order
    rawScrollValue,         \* the Animated.Value tracking the offset
    \* state of ScrollProgressTrack
    isDragging,
    isPressed,
    dragStartPosition,
    \* what the last handler let out
    scrollRequests,         \* scroll requests issued to the host by it
    positions,              \* positions passed to onScrollToPosition by it
    onPressStartCalls,      \* onPressStart invocations in this episode
    onPressEndCalls,        \* onPressEnd invocations in this episode
    pressNested,            \* an onPressStart ran with a press still open,
                            \* or an onPressEnd with none open
    lastPressCallback,      \* "start" or "end": the press callback invoked
                            \* last in this episode, "none" before any
    positionOutsidePress,   \* a position was passed to onScrollToPosition
                            \* in this episode when the last press callback
                            \* was not onPressStart
    thrown,                 \* the last handler threw
    lastEvent,              \* the handler that ran last
    \* the pointer and the two recognizers (react-native-gesture-handler)
    touch,
    touchY,
    panTranslationY,    \* cumulative translation the pan recognizer reported
    panState,
    tapState,
    \* an offset taken through normalization and back (RoundTripSpec only)
    roundTrip,
    \* the component is mounted; its effect cleanups have not run
    mounted,
    \* the state of a ScrollableContainer given the same events as the hook,
    \* NoTwin when none is run alongside
    twin

config == <<impl, alwaysVisible, inverted, disableGestures, fadeOutDelay,
            scrollRefCurrent, thumbHeight, host>>
parentVars == <<containerHeight, contentHeight, isScrollTrackVisible,
                isAutoHidden, isDragInProgress, autoHideTimer, timers,
                rawScrollValue>>
trackVars == <<isDragging, isPressed, dragStartPosition>>
outVars == <<scrollRequests, positions, onPressStartCalls, onPressEndCalls,
             pressNested, lastPressCallback, positionOutsidePress, thrown>>
pointerVars == <<touch, touchY, panTranslationY, panState, tapState>>
pureVars == <<roundTrip>>
lifeVars == <<mounted, twin>>
vars == <<config, parentVars, trackVars, outVars, lastEvent, pointerVars,
          pureVars, lifeVars>>

\* the component state as one record, so that handlers are functions on it
Cur ==
    [containerHeight |-> containerHeight, contentHeight |-> contentHeight,
     isScrollTrackVisible |-> isScrollTrackVisible,
     isAutoHidden |-> isAutoHidden, isDragInProgress |-> isDragInProgress,
     autoHideTimer |-> autoHideTimer, timers |-> timers,
     rawScrollValue |-> rawScrollValue,
     isDragging |-> isDragging, isPressed |-> isPressed,
     dragStartPosition |-> dragStartPosition,
     scrollRequests |-> <<>>, positions |-> <<>>,
     onPressStartCalls |-> onPressStartCalls,
     onPressEndCalls |-> onPressEndCalls,
     pressNested |-> pressNested,
     lastPressCallback |-> lastPressCallback,
     positionOutsidePress |-> positionOutsidePress, thrown |-> FALSE]

Commit(r) ==
    /\ containerHeight' = r.containerHeight
    /\ contentHeight' = r.contentHeight
    /\ isScrollTrackVisible' = r.isScrollTrackVisible
    /\ isAutoHidden' = r.isAutoHidden
    /\ isDragInProgress' = r.isDragInProgress
    /\ autoHideTimer' = r.autoHideTimer
    /\ timers' = r.timers
    /\ rawScrollValue' = r.rawScrollValue
    /\ isDragging' = r.isDragging
    /\ isPressed' = r.isPressed
    /\ dragStartPosition' = r.dragStartPosition
    /\ scrollRequests' = r.scrollRequests
    /\ positions' = r.positions
    /\ onPressStartCalls' = r.onPressStartCalls
    /\ onPressEndCalls' = r.onPressEndCalls
    /\ pressNested' = r.pressNested
    /\ lastPressCallback' = r.lastPressCallback
    /\ positionOutsidePress' = r.positionOutsidePress
    /\ thrown' = r.thrown

Max(a, b) == IF a >= b THEN a ELSE b
Min(a, b) == IF a <= b THEN a ELSE b

\* a length is a number of the program kept exact: the fraction num / den in
\* lowest terms, den > 0
RECURSIVE GCD(_, _)
GCD(a, b) == IF b = 0 THEN a ELSE GCD(b, a % b)

Frac(n, d) ==
    LET g == GCD(IF n < 0 THEN -n ELSE n, d)
    IN  [num |-> n \div g, den |-> d \div g]

\* arithmetic and order of such numbers
FracOf(n) == [num |-> n, den |-> 1]
FracSub(a, b) == Frac(a.num * b.den - b.num * a.den, a.den * b.den)
FracMul(a, b) == Frac(a.num * b.num, a.den * b.den)
FracDiv(a, b) == Frac(a.num * b.den, a.den * b.num)
FracLE(a, b) == a.num * b.den <= b.num * a.den
FracMax(a, b) == IF FracLE(b, a) THEN a ELSE b
FracMin(a, b) == IF FracLE(a, b) THEN a ELSE b

\* ------------------------------------------------------------ JS timers
TimerIds(ts) == {ts[i].id : i \in 1..Len(ts)}

\* setTimeout returns a handle no pending timer and no ref holds
NewTimerId(s) ==
    CHOOSE n \in 1..(MaxTimers + 2) :
        /\ n \notin TimerIds(s.timers) \cup {s.autoHideTimer}
        /\ \A m \in 1..(n - 1) : m \in TimerIds(s.timers) \cup {s.autoHideTimer}

clearTimeout(ts, id) == SelectSeq(ts, LAMBDA t : t.id # id)

setTimeout(ts, id, kind, delay) ==
    Append(ts, [id |-> id, kind |-> kind, remaining |-> delay])

\* =========================================================================
\* useScrollTrack (src/src/hooks/useScrollTrack.tsx)
\* =========================================================================
isScrollable(c) ==
    c.contentHeight - c.containerHeight > minScrollDistanceToShow

\* clearAutoHideTimer cancelling whatever timer is first in the queue when
\* the ref holds a handle, and keeping the handle
clearAutoHideTimer_headOfQueue(s) ==
    IF s.autoHideTimer # NoTimer /\ s.timers # <<>>
    THEN [s EXCEPT !.timers = Tail(@)]
    ELSE s

clearAutoHideTimer(s) ==
    IF s.autoHideTimer # NoTimer
    THEN [s EXCEPT !.timers = clearTimeout(@, s.autoHideTimer),
                   !.autoHideTimer = NoTimer]
    ELSE s

\* startAutoHideTimer scheduling with the default delay, not the option
hook_startAutoHideTimer_defaultDelay(s) ==
    LET s1 == clearAutoHideTimer(s)
        s2 == [s1 EXCEPT !.isAutoHidden = FALSE]
        id == NewTimerId(s2)
    IN  IF ~alwaysVisible
        THEN [s2 EXCEPT !.timers =
                    setTimeout(@, id, "hide", DefaultFadeOutDelay),
                        !.autoHideTimer = id]
        ELSE s2

\* startAutoHideTimer without its alwaysVisible test
hook_startAutoHideTimer_ignoringAlwaysVisible(s) ==
    LET s1 == clearAutoHideTimer(s)
        s2 == [s1 EXCEPT !.isAutoHidden = FALSE]
        id == NewTimerId(s2)
    IN  [s2 EXCEPT !.timers = setTimeout(@, id, "hide", fadeOutDelay),
                   !.autoHideTimer = id]

hook_startAutoHideTimer(s) ==
    LET s1 == clearAutoHideTimer(s)
        s2 == [s1 EXCEPT !.isAutoHidden = FALSE]
        id == NewTimerId(s2)
    IN  IF ~alwaysVisible
        THEN [s2 EXCEPT !.timers = setTimeout(@, id, "hide", fadeOutDelay),
                        !.autoHideTimer = id]
        ELSE s2

hook_onLayout(s, height) == [s EXCEPT !.containerHeight = height]

hook_onContentSizeChange(s, height) == [s EXCEPT !.contentHeight = height]

\* Animated.event writes contentOffset.y into the animated value
createScrollHandler(s, y) == [s EXCEPT !.rawScrollValue = y]

hook_onScroll(s, c, y) ==
    LET s1 == createScrollHandler(s, y)
    IN  IF isScrollable(c)
        THEN IF alwaysVisible
             THEN [s1 EXCEPT !.isAutoHidden = FALSE]
             ELSE hook_startAutoHideTimer(s1)
        ELSE [clearAutoHideTimer(s1) EXCEPT !.isAutoHidden = FALSE]

\* position is the fraction p.num / p.den
TargetOffset(p, c) ==
    LET maxOffset == Max(0, c.contentHeight - c.containerHeight)
    IN  (p.num * maxOffset) \div p.den

\* the tracked value left to the next scroll event of the host
setScrollValue_ignored(s, value) == s

setScrollValue(s, value) == [s EXCEPT !.rawScrollValue = value]

\* the normalization dividing by the content height, not by the range
getNormalizedScrollPosition_overContent(value, content, container) ==
    LET maxScrollDistance == FracMax(FracOf(1), content)
    IN  FracMax(FracOf(0),
                FracMin(FracOf(1), FracDiv(value, maxScrollDistance)))

\* interpolation of the offset from [0, maxScrollDistance] onto [0, 1],
\* clamped; value and heights are fractions
getNormalizedScrollPosition(value, content, container) ==
    LET maxScrollDistance == FracMax(FracOf(1), FracSub(content, container))
    IN  FracMax(FracOf(0),
                FracMin(FracOf(1), FracDiv(value, maxScrollDistance)))

\* maxOffset and targetOffset of scrollToPosition, on fractions
exactTargetOffset(p, content, container) ==
    LET maxOffset == FracMax(FracOf(0), FracSub(content, container))
    IN  FracMul(p, maxOffset)

\* scrollToPosition without the early return on a detached ref
hook_scrollToPosition_noRefCheck(s, c, p) ==
    LET s1 == hook_startAutoHideTimer(s)
        targetOffset == TargetOffset(p, c)
        s2 == setScrollValue(s1, targetOffset)
        isAnimated == ~c.isDragInProgress
    IN  [s2 EXCEPT !.scrollRequests =
            Append(@, [offset |-> targetOffset, animated |-> isAnimated,
                       via |-> "scrollToOffset"])]

\* the branch of the hook's if / else-if chain that a host takes: the
\* responder branch tests getScrollResponder?.()?.scrollTo itself
hook_scrollMethod(h) ==
    IF h.scrollToOffset THEN "scrollToOffset"
    ELSE IF h.scrollTo THEN "scrollTo"
    ELSE IF h.getScrollResponder = "withScrollTo"
    THEN "getScrollResponder.scrollTo"
    ELSE IF h.listRefScrollToOffset THEN "_listRef.scrollToOffset"
    ELSE NoMethod

hook_scrollToPosition(s, c, p) ==
    IF ~scrollRefCurrent
    THEN s
    ELSE LET s1 == hook_startAutoHideTimer(s)
             targetOffset == TargetOffset(p, c)
             s2 == setScrollValue(s1, targetOffset)
             isAnimated == ~c.isDragInProgress
             via == hook_scrollMethod(host)
         IN  IF via = NoMethod
             THEN s2
             ELSE [s2 EXCEPT !.scrollRequests =
                      Append(@, [offset |-> targetOffset,
                                 animated |-> isAnimated, via |-> via])]

hook_handleDragStart(s) ==
    LET s1 == [s EXCEPT !.isDragInProgress = TRUE]
    IN  [clearAutoHideTimer(s1) EXCEPT !.isAutoHidden = FALSE]

\* the zero-delay callback is queued without keeping its handle
hook_handleDragEnd(s) ==
    LET s1 == [s EXCEPT !.isDragInProgress = FALSE]
    IN  IF ~alwaysVisible
        THEN [s1 EXCEPT !.timers =
                    setTimeout(@, NewTimerId(s1), "deferred", 0)]
        ELSE s1

hook_visible(c) == alwaysVisible \/ (~c.isAutoHidden /\ isScrollable(c))

hook_isVisible(c) == isScrollable(c) /\ (alwaysVisible \/ ~c.isAutoHidden)

\* =========================================================================
\* ScrollableContainer (src/src/ScrollProgressTrack.tsx, second half)
\* =========================================================================
\* startAutoHideTimer without the clearTimeout of the previous handle
container_startAutoHideTimer_noClear(s, c) ==
    LET s2 == IF c.isAutoHidden THEN [s EXCEPT !.isAutoHidden = FALSE]
              ELSE s
        id == NewTimerId(s2)
    IN  IF ~c.isDragInProgress /\ ~alwaysVisible
        THEN [s2 EXCEPT !.timers =
                    setTimeout(@, id, "hide", ContainerFadeOutDelay),
                        !.autoHideTimer = id]
        ELSE s2

container_startAutoHideTimer(s, c) ==
    LET s1 == IF s.autoHideTimer # NoTimer
              THEN [s EXCEPT !.timers = clearTimeout(@, s.autoHideTimer)]
              ELSE s
        s2 == IF c.isAutoHidden THEN [s1 EXCEPT !.isAutoHidden = FALSE]
              ELSE s1
        id == NewTimerId(s2)
    IN  IF ~c.isDragInProgress /\ ~alwaysVisible
        THEN [s2 EXCEPT !.timers =
                    setTimeout(@, id, "hide", ContainerFadeOutDelay),
                        !.autoHideTimer = id]
        ELSE s2

\* ev = [y, layoutHeight, contentHeight]
container_handleScrollForVisibility(s, c, ev) ==
    LET maxOffset == Max(0, ev.contentHeight - ev.layoutHeight)
        s1 == [s EXCEPT !.contentHeight = ev.contentHeight,
                        !.containerHeight = ev.layoutHeight]
        shouldShowTrack == maxOffset > ContainerScrollThreshold
        s2 == [s1 EXCEPT !.isScrollTrackVisible = shouldShowTrack]
    IN  IF shouldShowTrack /\ ~alwaysVisible
        THEN container_startAutoHideTimer(s2, c)
        ELSE [clearAutoHideTimer(s2) EXCEPT !.isAutoHidden = FALSE]

container_handleScroll(s, c, ev) ==
    container_handleScrollForVisibility(createScrollHandler(s, ev.y), c, ev)

\* the branch of the container's chain: its third branch tests only that
\* getScrollResponder exists and calls scrollTo inside it if the responder
\* has one, so a responder without scrollTo ends the chain
container_scrollMethod(h) ==
    IF h.scrollToOffset THEN "scrollToOffset"
    ELSE IF h.scrollTo THEN "scrollTo"
    ELSE IF h.getScrollResponder = "withScrollTo"
    THEN "getScrollResponder.scrollTo"
    ELSE IF h.getScrollResponder = "withoutScrollTo" THEN NoMethod
    ELSE IF h.listRefScrollToOffset THEN "_listRef.scrollToOffset"
    ELSE NoMethod

container_handleScrollToPosition(s, c, p) ==
    IF ~scrollRefCurrent
    THEN s
    ELSE LET s1 == container_startAutoHideTimer(s, c)
             targetOffset == TargetOffset(p, c)
             s2 == setScrollValue(s1, targetOffset)
             isAnimated == ~c.isDragInProgress
             via == container_scrollMethod(host)
         IN  IF via = NoMethod
             THEN s2
             ELSE [s2 EXCEPT !.scrollRequests =
                      Append(@, [offset |-> targetOffset,
                                 animated |-> isAnimated, via |-> via])]

container_handleContainerLayout(s, c, height) ==
    LET s1 == [s EXCEPT !.containerHeight = height]
    IN  IF c.contentHeight > 0 /\ height > 0
        THEN [s1 EXCEPT !.isScrollTrackVisible =
                 Max(0, c.contentHeight - height) > ContainerScrollThreshold]
        ELSE s1

container_handleContentSizeChange(s, c, height) ==
    LET s1 == [s EXCEPT !.contentHeight = height]
    IN  IF c.containerHeight > 0 /\ height > 0
        THEN [s1 EXCEPT !.isScrollTrackVisible =
                 Max(0, height - c.containerHeight) > ContainerScrollThreshold]
        ELSE s1

container_handleDragStart(s) ==
    LET s1 == [s EXCEPT !.isDragInProgress = TRUE]
    IN  [clearAutoHideTimer(s1) EXCEPT !.isAutoHidden = FALSE]

container_handleDragEnd(s, c) ==
    container_startAutoHideTimer([s EXCEPT !.isDragInProgress = FALSE], c)

isTrackCurrentlyVisible(c) ==
    c.isScrollTrackVisible /\ (alwaysVisible \/ ~c.isAutoHidden)

\* =========================================================================
\* ScrollProgressTrack (src/unnamed/part_002)
\* =========================================================================
availableHeight(c) == Max(MinTrackLength, c.containerHeight)

\* the null return without the minimum track length
TrackRendered_anyLength(c) == ~(c.contentHeight <= c.containerHeight)

\* the component returns null, and mounts no recognizer, in these cases
TrackRendered(c) ==
    ~(c.containerHeight < MinTrackLength \/ c.contentHeight <= c.containerHeight)

\* ------------------------------------------------------- thumb geometry
\* calculateThumbHeight without the 0.8 * availableHeight cap
calculateThumbHeight_uncapped(c) ==
    IF c.contentHeight <= c.containerHeight
    THEN [num |-> 0, den |-> 1]
    ELSE Frac(availableHeight(c) * c.containerHeight, c.contentHeight)

\* ratio = containerHeight / contentHeight, dynamicHeight = availableHeight
\* * ratio, capped at availableHeight * 0.8; the thumbHeight prop is not read
calculateThumbHeight(c) ==
    IF c.contentHeight <= c.containerHeight
    THEN [num |-> 0, den |-> 1]
    ELSE Frac(Min(5 * availableHeight(c) * c.containerHeight,
                  4 * availableHeight(c) * c.contentHeight),
              5 * c.contentHeight)

currentThumbHeight(c) == calculateThumbHeight(c)

maxThumbPosition(c) ==
    LET h == currentThumbHeight(c)
    IN  Frac(Max(0, availableHeight(c) * h.den - h.num), h.den)

scrollRange(c) == Max(1, c.contentHeight - c.containerHeight)

\* Animated interpolation of value from [0, inMax] onto [out0, out1] (two
\* numerators over outDen), extrapolate 'extend': no clamping of the input
interpolate_extend(value, inMax, out0, out1, outDen) ==
    Frac(out0 * inMax + (out1 - out0) * value, outDen * inMax)

\* the same with extrapolate: 'clamp'
interpolate(value, inMax, out0, out1, outDen) ==
    LET v == Max(0, Min(inMax, value))
    IN  Frac(out0 * inMax + (out1 - out0) * v, outDen * inMax)

\* the thumb travelling in the same direction whether inverted or not
animatedThumbPosition_sameDirection(c) ==
    LET m == maxThumbPosition(c)
    IN  interpolate(c.rawScrollValue, scrollRange(c), 0, m.num, m.den)

\* the thumb without the clamp of the interpolation
animatedThumbPosition_unclamped(c) ==
    LET m == maxThumbPosition(c)
    IN  IF inverted
        THEN interpolate_extend(c.rawScrollValue, scrollRange(c), m.num, 0, m.den)
        ELSE interpolate_extend(c.rawScrollValue, scrollRange(c), 0, m.num, m.den)

\* translateY of the thumb; animatedScrollPosition is the parent's
\* rawScrollValue, so the input range is [0, scrollRange]
animatedThumbPosition(c) ==
    LET m == maxThumbPosition(c)
    IN  IF inverted
        THEN interpolate(c.rawScrollValue, scrollRange(c), m.num, 0, m.den)
        ELSE interpolate(c.rawScrollValue, scrollRange(c), 0, m.num, m.den)

\* y / availableHeight without the clamp
rawPosition_unclamped(y, c) == y

\* Math.max(0, Math.min(1, y / availableHeight)), as a numerator over
\* availableHeight
rawPosition(y, c) == Max(0, Min(availableHeight(c), y))

\* position without the inversion
position_notInverted(y, c) ==
    [num |-> rawPosition(y, c), den |-> availableHeight(c)]

\* position inverting the coordinate itself, before any clamp
position_invertUnclamped(y, c) ==
    [num |-> IF inverted THEN availableHeight(c) - y
             ELSE rawPosition(y, c),
     den |-> availableHeight(c)]

position(y, c) ==
    [num |-> IF inverted THEN availableHeight(c) - rawPosition(y, c)
             ELSE rawPosition(y, c),
     den |-> availableHeight(c)]

onDragStart(s, c) ==
    IF impl = "hook" THEN hook_handleDragStart(s)
    ELSE container_handleDragStart(s)

onDragEnd(s, c) ==
    IF impl = "hook" THEN hook_handleDragEnd(s)
    ELSE container_handleDragEnd(s, c)

onPressStart(s) ==
    [s EXCEPT !.onPressStartCalls = @ + 1,
              !.pressNested = @ \/ (s.onPressStartCalls > s.onPressEndCalls),
              !.lastPressCallback = "start"]

onPressEnd(s) ==
    [s EXCEPT !.onPressEndCalls = @ + 1,
              !.pressNested = @ \/ (s.onPressStartCalls <= s.onPressEndCalls),
              !.lastPressCallback = "end"]

onScrollToPosition(s, c, p) ==
    LET s1 == [s EXCEPT !.positions = Append(@, p),
                        !.positionOutsidePress =
                            @ \/ (s.lastPressCallback # "start")]
    IN  IF impl = "hook" THEN hook_scrollToPosition(s1, c, p)
        ELSE container_handleScrollToPosition(s1, c, p)

directScrollToPosition(s, c, p) == onScrollToPosition(s, c, p)

\* handleTrackGesture not recording the contact coordinate at BEGAN
handleTrackGesture_noDragStartRecord(s, c, state, y, translationY) ==
    IF state = "BEGAN"
    THEN LET s1 == [s EXCEPT !.isDragging = TRUE, !.isPressed = TRUE]
             s2 == onPressStart(onDragStart(s1, c))
         IN  directScrollToPosition(s2, c, position(y, c))
    ELSE IF state = "ACTIVE"
    THEN LET currentTouchY == s.dragStartPosition + translationY
         IN  directScrollToPosition(s, c, position(currentTouchY, c))
    ELSE IF state \in {"END", "CANCELLED"}
    THEN LET s1 == [s EXCEPT !.isDragging = FALSE, !.isPressed = FALSE]
         IN  onPressEnd(onDragEnd(s1, c))
    ELSE s

\* handleTrackGesture emitting no position at BEGAN
handleTrackGesture_noJumpOnBegin(s, c, state, y, translationY) ==
    IF state = "BEGAN"
    THEN LET s1 == [s EXCEPT !.dragStartPosition = y,
                             !.isDragging = TRUE,
                             !.isPressed = TRUE]
         IN  onPressStart(onDragStart(s1, c))
    ELSE IF state = "ACTIVE"
    THEN LET currentTouchY == s.dragStartPosition + translationY
         IN  directScrollToPosition(s, c, position(currentTouchY, c))
    ELSE IF state \in {"END", "CANCELLED"}
    THEN LET s1 == [s EXCEPT !.isDragging = FALSE, !.isPressed = FALSE]
         IN  onPressEnd(onDragEnd(s1, c))
    ELSE s

handleTrackGesture(s, c, state, y, translationY) ==
    IF state = "BEGAN"
    THEN LET s1 == [s EXCEPT !.dragStartPosition = y,
                             !.isDragging = TRUE,
                             !.isPressed = TRUE]
             s2 == onPressStart(onDragStart(s1, c))
         IN  directScrollToPosition(s2, c, position(y, c))
    ELSE IF state = "ACTIVE"
    THEN LET currentTouchY == s.dragStartPosition + translationY
         IN  directScrollToPosition(s, c, position(currentTouchY, c))
    ELSE IF state \in {"END", "CANCELLED"}
    THEN LET s1 == [s EXCEPT !.isDragging = FALSE, !.isPressed = FALSE]
         IN  onPressEnd(onDragEnd(s1, c))
    ELSE s

\* handleTapGesture without the inversion of the release position
handleTapGesture_notInverted(s, c, state, y) ==
    IF state = "BEGAN"
    THEN onPressStart([s EXCEPT !.isPressed = TRUE])
    ELSE IF state = "END"
    THEN LET s1 == onScrollToPosition(s, c, position_notInverted(y, c))
         IN  onPressEnd([s1 EXCEPT !.isPressed = FALSE])
    ELSE IF state \in {"CANCELLED", "FAILED"}
    THEN onPressEnd([s EXCEPT !.isPressed = FALSE])
    ELSE s

handleTapGesture(s, c, state, y) ==
    IF state = "BEGAN"
    THEN onPressStart([s EXCEPT !.isPressed = TRUE])
    ELSE IF state = "END"
    THEN LET s1 == onScrollToPosition(s, c, position(y, c))
         IN  onPressEnd([s1 EXCEPT !.isPressed = FALSE])
    ELSE IF state \in {"CANCELLED", "FAILED"}
    THEN onPressEnd([s EXCEPT !.isPressed = FALSE])
    ELSE s

\* the opacity target of the visibility effect, for a mounted track
visible(c) ==
    IF impl = "hook" THEN hook_visible(c) ELSE isTrackCurrentlyVisible(c)

alwaysVisibleProp == IF impl = "hook" THEN alwaysVisible ELSE FALSE

RenderedVisible(c) == TrackRendered(c) /\ (alwaysVisibleProp \/ visible(c))

\* =========================================================================
\* The state machine
\* =========================================================================
Init ==
    /\ impl \in Impls
    /\ alwaysVisible \in BOOLEAN
    /\ inverted \in BOOLEAN
    /\ disableGestures \in (IF impl = "hook" THEN BOOLEAN ELSE {FALSE})
    /\ scrollRefCurrent \in BOOLEAN
    /\ fadeOutDelay \in (IF impl = "hook" THEN FadeOutDelays
                         ELSE {ContainerFadeOutDelay})
    /\ thumbHeight = NoThumbHeight
    /\ host = FlatListHost
    /\ containerHeight = 0
    /\ contentHeight = 0
    /\ isScrollTrackVisible = FALSE
    /\ isAutoHidden = TRUE
    /\ isDragInProgress = FALSE
    /\ autoHideTimer = NoTimer
    /\ timers = <<>>
    /\ rawScrollValue = 0
    /\ isDragging = FALSE
    /\ isPressed = FALSE
    /\ dragStartPosition = 0
    /\ scrollRequests = <<>>
    /\ positions = <<>>
    /\ onPressStartCalls = 0
    /\ onPressEndCalls = 0
    /\ pressNested = FALSE
    /\ lastPressCallback = "none"
    /\ positionOutsidePress = FALSE
    /\ thrown = FALSE
    /\ mounted = TRUE
    /\ twin = NoTwin
    /\ roundTrip = NoRoundTrip
    /\ lastEvent = "mount"
    /\ touch = "idle"
    /\ touchY = 0
    /\ panTranslationY = 0
    /\ panState = "UNDETERMINED"
    /\ tapState = "UNDETERMINED"

Terminal == {"END", "FAILED", "CANCELLED"}
NoContact == touch \in {"idle", "done"}

\* a handler ran: commit what it left, the component re-renders
Handled(r, ev) ==
    /\ Len(r.timers) <= MaxTimers
    /\ Commit(r)
    /\ lastEvent' = ev
    /\ UNCHANGED <<config, lifeVars, pureVars>>

\* the host does not resize the list away from under a finger in contact
HostKeepsTrack(r) == NoContact \/ TrackRendered(r)

\* in the hook a null ScrollTrack unmounts the track component, whose own
\* state starts afresh on the next mount
Remount(r) ==
    IF impl = "hook" /\ ~TrackRendered(r)
    THEN [r EXCEPT !.isDragging = FALSE, !.isPressed = FALSE,
                   !.dragStartPosition = 0]
    ELSE r

Layout(height) ==
    LET r == IF impl = "hook" THEN hook_onLayout(Cur, height)
             ELSE container_handleContainerLayout(Cur, Cur, height)
    IN  /\ HostKeepsTrack(r)
        /\ Handled(Remount(r), "layout")
        /\ UNCHANGED pointerVars

ContentSizeChange(height) ==
    LET r == IF impl = "hook" THEN hook_onContentSizeChange(Cur, height)
             ELSE container_handleContentSizeChange(Cur, Cur, height)
    IN  /\ HostKeepsTrack(r)
        /\ Handled(Remount(r), "contentSize")
        /\ UNCHANGED pointerVars

HookScroll(y) ==
    /\ impl = "hook"
    /\ Handled(hook_onScroll(Cur, Cur, y), "scroll")
    /\ UNCHANGED pointerVars

ContainerScroll(y, layoutHeight, height) ==
    LET ev == [y |-> y, layoutHeight |-> layoutHeight,
               contentHeight |-> height]
        r == container_handleScroll(Cur, Cur, ev)
    IN  /\ impl = "container"
        /\ HostKeepsTrack(r)
        /\ Handled(r, "scroll")
        /\ UNCHANGED pointerVars

\* ------------------------------------------------------------ the clock
Due(ts) == {i \in 1..Len(ts) : ts[i].remaining = 0}

MinRemaining(ts) ==
    CHOOSE m \in {ts[i].remaining : i \in 1..Len(ts)} :
        \A i \in 1..Len(ts) : m <= ts[i].remaining

\* the recognizers report a contact's begin, and its end, in the same batch
\* as the pointer event: no time passes until they have
RecognizersSettled ==
    /\ touch \notin {"up", "cancel"}
    /\ touch = "down" => (panState # "UNDETERMINED" /\ tapState # "UNDETERMINED")

\* time passes, up to the next deadline; a due timer fires first
Tick ==
    /\ timers # <<>>
    /\ RecognizersSettled
    /\ Due(timers) = {}
    /\ LET d == Min(TimeStep, MinRemaining(timers))
       IN  timers' = [i \in 1..Len(timers) |->
                        [timers[i] EXCEPT !.remaining = @ - d]]
    /\ UNCHANGED <<config, lifeVars, pureVars, containerHeight, contentHeight,
                   isScrollTrackVisible, isAutoHidden, isDragInProgress,
                   autoHideTimer, rawScrollValue, trackVars, outVars,
                   lastEvent, pointerVars>>

RemoveAt(ts, i) == [j \in 1..(Len(ts) - 1) |-> IF j < i THEN ts[j] ELSE ts[j + 1]]

\* the callback of the hide timer
hideCallback(s) == [s EXCEPT !.isAutoHidden = TRUE]

\* the callback handleDragEnd of the hook defers with setTimeout(..., 0)
deferredCallback(s) == hook_startAutoHideTimer(s)

\* the due timer scheduled first fires
TimerFire ==
    /\ Due(timers) # {}
    /\ LET i == CHOOSE k \in Due(timers) : \A m \in Due(timers) : k <= m
           s == [Cur EXCEPT !.timers = RemoveAt(timers, i)]
       IN  Handled(IF timers[i].kind = "hide" THEN hideCallback(s)
                   ELSE deferredCallback(s),
                   IF timers[i].kind = "hide" THEN "hideTimer" ELSE "deferred")
    /\ UNCHANGED pointerVars

\* --------------------------------------------- the pointer and recognizers
\* recognizers mounted whatever disableGestures says
TouchDown_ignoringDisableGestures(y) ==
    /\ NoContact
    /\ TrackRendered(Cur)
    /\ touch' = "down"
    /\ touchY' = y
    /\ panTranslationY' = 0
    /\ onPressStartCalls' = 0
    /\ onPressEndCalls' = 0
    /\ pressNested' = FALSE
    /\ lastPressCallback' = "none"
    /\ positionOutsidePress' = FALSE
    /\ UNCHANGED <<config, lifeVars, pureVars, parentVars, trackVars, scrollRequests,
                   positions, thrown, lastEvent, panState, tapState>>

\* the recognizers exist only on a rendered track with gestures enabled
TouchDown(y) ==
    /\ NoContact
    /\ ~disableGestures
    /\ TrackRendered(Cur)
    /\ touch' = "down"
    /\ touchY' = y
    /\ panTranslationY' = 0
    /\ onPressStartCalls' = 0
    /\ onPressEndCalls' = 0
    /\ pressNested' = FALSE
    /\ lastPressCallback' = "none"
    /\ positionOutsidePress' = FALSE
    /\ UNCHANGED <<config, lifeVars, pureVars, parentVars, trackVars, scrollRequests,
                   positions, thrown, lastEvent, panState, tapState>>

TouchUp ==
    /\ touch = "down"
    /\ panState # "UNDETERMINED" /\ tapState # "UNDETERMINED"
    /\ touch' = "up"
    /\ UNCHANGED <<config, lifeVars, pureVars, parentVars, trackVars, outVars, lastEvent,
                   touchY, panTranslationY, panState, tapState>>

TouchCancel ==
    /\ touch = "down"
    /\ panState # "UNDETERMINED" /\ tapState # "UNDETERMINED"
    /\ touch' = "cancel"
    /\ UNCHANGED <<config, lifeVars, pureVars, parentVars, trackVars, outVars, lastEvent,
                   touchY, panTranslationY, panState, tapState>>

\* both recognizers have finished: the episode is over
Settle(pan, tap) ==
    IF pan \in Terminal /\ tap \in Terminal
    THEN /\ touch' = "done"
         /\ panTranslationY' = 0
         /\ panState' = "UNDETERMINED"
         /\ tapState' = "UNDETERMINED"
    ELSE /\ touch' = touch
         /\ panTranslationY' = panTranslationY
         /\ panState' = pan
         /\ tapState' = tap

PanBegan ==
    /\ touch = "down" /\ panState = "UNDETERMINED"
    /\ Handled(handleTrackGesture(Cur, Cur, "BEGAN", touchY, 0), "panBegan")
    /\ panState' = "BEGAN"
    /\ UNCHANGED <<touch, touchY, panTranslationY, tapState>>

TapBegan ==
    /\ touch = "down" /\ tapState = "UNDETERMINED"
    /\ Handled(handleTapGesture(Cur, Cur, "BEGAN", touchY), "tapBegan")
    /\ tapState' = "BEGAN"
    /\ UNCHANGED <<touch, touchY, panTranslationY, panState>>

\* movement: the pan recognizer activates and reports each move
PanActive(translationY) ==
    /\ touch = "down" /\ panState \in {"BEGAN", "ACTIVE"}
    /\ tapState # "UNDETERMINED"
    /\ Handled(handleTrackGesture(Cur, Cur, "ACTIVE", touchY, translationY),
               "panActive")
    /\ panState' = "ACTIVE"
    /\ panTranslationY' = translationY
    /\ UNCHANGED <<touch, touchY, tapState>>

PanEnd ==
    /\ touch = "up" /\ panState = "ACTIVE"
    /\ Handled(handleTrackGesture(Cur, Cur, "END", touchY, 0), "panEnd")
    /\ Settle("END", tapState)
    /\ UNCHANGED touchY

\* contact lifted before the pan recognizer activated
PanFailed ==
    /\ touch = "up" /\ panState = "BEGAN"
    /\ Handled(handleTrackGesture(Cur, Cur, "FAILED", touchY, 0), "panFailed")
    /\ Settle("FAILED", tapState)
    /\ UNCHANGED touchY

\* the system cancels the contact, or the tap recognizer activating on
\* release cancels the pan recognizer that is still waiting
PanCancelled ==
    /\ \/ touch = "cancel" /\ panState \in {"BEGAN", "ACTIVE"}
       \/ touch = "up" /\ panState = "BEGAN" /\ tapState \in {"BEGAN", "END"}
    /\ Handled(handleTrackGesture(Cur, Cur, "CANCELLED", touchY, 0),
               "panCancelled")
    /\ Settle("CANCELLED", tapState)
    /\ UNCHANGED touchY

\* release without movement: the tap is recognized at the release coordinate
TapEnd ==
    /\ touch = "up" /\ tapState = "BEGAN"
    /\ panState \in {"BEGAN", "FAILED", "CANCELLED"}
    /\ Handled(handleTapGesture(Cur, Cur, "END", touchY), "tapEnd")
    /\ Settle(panState, "END")
    /\ UNCHANGED touchY

\* the tap recognizer gives up: held too long, moved too far (the pan
\* recognizer took over), or the contact was cancelled
TapFailed ==
    /\ tapState = "BEGAN"
    /\ \/ touch = "down" /\ panState # "UNDETERMINED"
       \/ touch = "cancel"
       \/ touch = "up" /\ panState \in {"ACTIVE", "END"}
    /\ Handled(handleTapGesture(Cur, Cur, "FAILED", touchY), "tapFailed")
    /\ Settle(panState, "FAILED")
    /\ UNCHANGED touchY

Next ==
    \/ \E h \in ContainerHeights : Layout(h)
    \/ \E h \in ContentHeights : ContentSizeChange(h)
    \/ \E y \in ScrollOffsets : HookScroll(y)
    \/ \E y \in ScrollOffsets, lh \in ContainerHeights, ch \in ContentHeights :
           ContainerScroll(y, lh, ch)
    \/ Tick
    \/ TimerFire
    \/ \E y \in TouchYs : TouchDown(y)
    \/ TouchUp
    \/ TouchCancel
    \/ PanBegan
    \/ TapBegan
    \/ \E t \in Translations : PanActive(t)
    \/ PanEnd
    \/ PanFailed
    \/ PanCancelled
    \/ TapEnd
    \/ TapFailed

Spec == Init /\ [][Next]_vars

TypeOK ==
    /\ isAutoHidden \in BOOLEAN
    /\ Len(timers) <= MaxTimers

\* =========================================================================
\* The thumb geometry alone: ScrollProgressTrack rendered with arbitrary
\* props, as any caller of the exported component may
\* =========================================================================
GeometryInit ==
    /\ impl = "hook"
    /\ alwaysVisible = FALSE
    /\ inverted \in BOOLEAN
    /\ disableGestures = FALSE
    /\ scrollRefCurrent = TRUE
    /\ fadeOutDelay = DefaultFadeOutDelay
    /\ thumbHeight \in ThumbHeights
    /\ host = FlatListHost
    /\ containerHeight = 0
    /\ contentHeight = 0
    /\ isScrollTrackVisible = FALSE
    /\ isAutoHidden = TRUE
    /\ isDragInProgress = FALSE
    /\ autoHideTimer = NoTimer
    /\ timers = <<>>
    /\ rawScrollValue = 0
    /\ isDragging = FALSE
    /\ isPressed = FALSE
    /\ dragStartPosition = 0
    /\ scrollRequests = <<>>
    /\ positions = <<>>
    /\ onPressStartCalls = 0
    /\ onPressEndCalls = 0
    /\ pressNested = FALSE
    /\ lastPressCallback = "none"
    /\ positionOutsidePress = FALSE
    /\ thrown = FALSE
    /\ mounted = TRUE
    /\ twin = NoTwin
    /\ roundTrip = NoRoundTrip
    /\ lastEvent = "mount"
    /\ touch = "idle"
    /\ touchY = 0
    /\ panTranslationY = 0
    /\ panState = "UNDETERMINED"
    /\ tapState = "UNDETERMINED"

\* a render with props containerHeight, contentHeight and the current value
\* of animatedScrollPosition
RenderTrack(height, content, value) ==
    /\ containerHeight' = height
    /\ contentHeight' = content
    /\ rawScrollValue' = value
    /\ lastEvent' = "render"
    /\ UNCHANGED <<config, lifeVars, pureVars, isScrollTrackVisible, isAutoHidden,
                   isDragInProgress, autoHideTimer, timers, trackVars,
                   outVars, pointerVars>>

GeometryNext ==
    \E h \in GeometryExtents, ch \in GeometryExtents, v \in GeometryOffsets :
        RenderTrack(h, ch, v)

GeometrySpec == GeometryInit /\ [][GeometryNext]_vars

\* =========================================================================
\* The hosts a scroll ref may be attached to
\* =========================================================================
CapabilityInit ==
    /\ impl \in Impls
    /\ alwaysVisible = FALSE
    /\ inverted = FALSE
    /\ disableGestures = FALSE
    /\ scrollRefCurrent = TRUE
    /\ fadeOutDelay = (IF impl = "hook" THEN DefaultFadeOutDelay
                       ELSE ContainerFadeOutDelay)
    /\ thumbHeight = NoThumbHeight
    /\ host \in Hosts
    /\ containerHeight = 0
    /\ contentHeight = 0
    /\ isScrollTrackVisible = FALSE
    /\ isAutoHidden = TRUE
    /\ isDragInProgress = FALSE
    /\ autoHideTimer = NoTimer
    /\ timers = <<>>
    /\ rawScrollValue = 0
    /\ isDragging = FALSE
    /\ isPressed = FALSE
    /\ dragStartPosition = 0
    /\ scrollRequests = <<>>
    /\ positions = <<>>
    /\ onPressStartCalls = 0
    /\ onPressEndCalls = 0
    /\ pressNested = FALSE
    /\ lastPressCallback = "none"
    /\ positionOutsidePress = FALSE
    /\ thrown = FALSE
    /\ mounted = TRUE
    /\ twin = NoTwin
    /\ roundTrip = NoRoundTrip
    /\ lastEvent = "mount"
    /\ touch = "idle"
    /\ touchY = 0
    /\ panTranslationY = 0
    /\ panState = "UNDETERMINED"
    /\ tapState = "UNDETERMINED"

CapabilitySpec == CapabilityInit /\ [][Next]_vars

\* =========================================================================
\* Host callbacks delivered with missing fields, among well-formed ones
\* =========================================================================
\* no stored height is undefined; what the program computes from an
\* undefined height (NaN) is not followed further
WellDefined == containerHeight # Undefined /\ contentHeight # Undefined

\* e.nativeEvent.layout.height: reading .layout of undefined, or .height of
\* undefined, is a TypeError; a missing height reads as undefined, which both
\* layout handlers store (undefined > 0 is false, as -1 > 0 is)
MalformedLayout(shape) ==
    LET r == IF shape \in {"noNativeEvent", "noLayout"}
             THEN [Cur EXCEPT !.thrown = TRUE]
             ELSE IF impl = "hook" THEN hook_onLayout(Cur, Undefined)
             ELSE container_handleContainerLayout(Cur, Cur, Undefined)
    IN  /\ WellDefined
        /\ NoContact
        /\ Handled(r, "malformedLayout")
        /\ UNCHANGED pointerVars

\* onContentSizeChange(width, height) called without a height
MalformedContentSize ==
    LET r == IF impl = "hook" THEN hook_onContentSizeChange(Cur, Undefined)
             ELSE container_handleContentSizeChange(Cur, Cur, Undefined)
    IN  /\ WellDefined
        /\ NoContact
        /\ Handled(r, "malformedContentSize")
        /\ UNCHANGED pointerVars

\* a scroll event lacking a field.  Animated.event, given an event without
\* the path nativeEvent.contentOffset.y, throws or leaves the value alone
\* (it depends on the build of the library); the hook's onScroll reads
\* nothing else of the event, handleScrollForVisibility returns at once
\* without nativeEvent and reads every other missing field as 0
MalformedScroll(shape, throws, y, layoutHeight, height) ==
    LET noPath == shape \in {"noNativeEvent", "noContentOffset", "noY"}
        ev == [y |-> IF noPath THEN rawScrollValue ELSE y,
               layoutHeight |-> IF shape = "noLayoutMeasurement" THEN 0
                                ELSE layoutHeight,
               contentHeight |-> IF shape = "noContentSize" THEN 0
                                 ELSE height]
        r == IF noPath /\ throws THEN [Cur EXCEPT !.thrown = TRUE]
             ELSE IF impl = "hook" THEN hook_onScroll(Cur, Cur, ev.y)
             ELSE IF shape = "noNativeEvent" THEN Cur
             ELSE container_handleScroll(Cur, Cur, ev)
    IN  /\ WellDefined
        /\ NoContact
        /\ Handled(r, "malformedScroll")
        /\ UNCHANGED pointerVars

HostEventNext ==
    \/ \E h \in ContainerHeights : WellDefined /\ Layout(h)
    \/ \E h \in ContentHeights : WellDefined /\ ContentSizeChange(h)
    \/ \E y \in ScrollOffsets : WellDefined /\ HookScroll(y)
    \/ \E y \in ScrollOffsets, lh \in ContainerHeights, ch \in ContentHeights :
           WellDefined /\ ContainerScroll(y, lh, ch)
    \/ Tick
    \/ TimerFire
    \/ \E shape \in MalformedLayouts : MalformedLayout(shape)
    \/ MalformedContentSize
    \/ \E shape \in MalformedScrolls, throws \in BOOLEAN :
           MalformedScroll(shape, throws, 400, 200, 1000)

HostEventSpec == Init /\ [][HostEventNext]_vars

\* =========================================================================
\* The component unmounted, with whatever timers it left in the queue
\* =========================================================================
UnmountInit ==
    /\ impl \in Impls
    /\ alwaysVisible = FALSE
    /\ inverted = FALSE
    /\ disableGestures = FALSE
    /\ scrollRefCurrent = TRUE
    /\ fadeOutDelay = (IF impl = "hook" THEN DefaultFadeOutDelay
                       ELSE ContainerFadeOutDelay)
    /\ thumbHeight = NoThumbHeight
    /\ host = FlatListHost
    /\ containerHeight = 0
    /\ contentHeight = 0
    /\ isScrollTrackVisible = FALSE
    /\ isAutoHidden = TRUE
    /\ isDragInProgress = FALSE
    /\ autoHideTimer = NoTimer
    /\ timers = <<>>
    /\ rawScrollValue = 0
    /\ isDragging = FALSE
    /\ isPressed = FALSE
    /\ dragStartPosition = 0
    /\ scrollRequests = <<>>
    /\ positions = <<>>
    /\ onPressStartCalls = 0
    /\ onPressEndCalls = 0
    /\ pressNested = FALSE
    /\ lastPressCallback = "none"
    /\ positionOutsidePress = FALSE
    /\ thrown = FALSE
    /\ mounted = TRUE
    /\ twin = NoTwin
    /\ roundTrip = NoRoundTrip
    /\ lastEvent = "mount"
    /\ touch = "idle"
    /\ touchY = 0
    /\ panTranslationY = 0
    /\ panState = "UNDETERMINED"
    /\ tapState = "UNDETERMINED"

\* the cleanup of the unmount effect: the hook's is clearAutoHideTimer, the
\* container's clears the timer of the ref and keeps the handle; both leave
\* alone the zero-delay timer of handleDragEnd, of which no handle is kept.
\* The recognizers go with the track.
Unmount ==
    LET r == IF impl = "hook" THEN clearAutoHideTimer(Cur)
             ELSE IF autoHideTimer # NoTimer
             THEN [Cur EXCEPT !.timers = clearTimeout(@, autoHideTimer)]
             ELSE Cur
    IN  /\ mounted
        /\ mounted' = FALSE
        /\ Commit(r)
        /\ lastEvent' = "unmount"
        /\ touch' = "idle"
        /\ panTranslationY' = 0
        /\ panState' = "UNDETERMINED"
        /\ tapState' = "UNDETERMINED"
        /\ UNCHANGED <<config, pureVars, twin, touchY>>

\* a timer left in the queue fires after the unmount: React ignores the
\* state setters of an unmounted component, the ref and setTimeout work as
\* before
TimerFireUnmounted ==
    /\ ~mounted
    /\ Due(timers) # {}
    /\ LET i == CHOOSE k \in Due(timers) : \A m \in Due(timers) : k <= m
           s == [Cur EXCEPT !.timers = RemoveAt(timers, i)]
       IN  Handled(IF timers[i].kind = "hide" THEN s
                   ELSE [deferredCallback(s) EXCEPT
                            !.isAutoHidden = s.isAutoHidden],
                   IF timers[i].kind = "hide" THEN "hideTimer" ELSE "deferred")
    /\ UNCHANGED pointerVars

UnmountNext ==
    \/ \E h \in ContainerHeights : mounted /\ Layout(h)
    \/ \E h \in ContentHeights : mounted /\ ContentSizeChange(h)
    \/ \E y \in ScrollOffsets : mounted /\ HookScroll(y)
    \/ \E y \in ScrollOffsets, lh \in ContainerHeights, ch \in ContentHeights :
           mounted /\ ContainerScroll(y, lh, ch)
    \/ mounted /\ Tick
    \/ mounted /\ TimerFire
    \/ \E y \in TouchYs : mounted /\ TouchDown(y)
    \/ mounted /\ TouchUp
    \/ mounted /\ TouchCancel
    \/ mounted /\ PanBegan
    \/ mounted /\ TapBegan
    \/ \E t \in Translations : mounted /\ PanActive(t)
    \/ mounted /\ PanEnd
    \/ mounted /\ PanFailed
    \/ mounted /\ PanCancelled
    \/ mounted /\ TapEnd
    \/ mounted /\ TapFailed
    \/ Unmount
    \/ ~mounted /\ Tick
    \/ TimerFireUnmounted

UnmountSpec == UnmountInit /\ [][UnmountNext]_vars

\* =========================================================================
\* useScrollTrack and ScrollableContainer side by side: the variables hold
\* the hook, twin holds the container, both with default options and given
\* the same host, pointer and clock events
\* =========================================================================
\* the track as ScrollableContainer mounts it: its drag and scroll
\* callbacks are the container's
twin_onScrollToPosition(s, c, p) ==
    LET s1 == [s EXCEPT !.positions = Append(@, p),
                        !.positionOutsidePress =
                            @ \/ (s.lastPressCallback # "start")]
    IN  container_handleScrollToPosition(s1, c, p)

twin_handleTrackGesture(s, c, state, y, translationY) ==
    IF state = "BEGAN"
    THEN LET s1 == [s EXCEPT !.dragStartPosition = y,
                             !.isDragging = TRUE,
                             !.isPressed = TRUE]
             s2 == onPressStart(container_handleDragStart(s1))
         IN  twin_onScrollToPosition(s2, c, position(y, c))
    ELSE IF state = "ACTIVE"
    THEN LET currentTouchY == s.dragStartPosition + translationY
         IN  twin_onScrollToPosition(s, c, position(currentTouchY, c))
    ELSE IF state \in {"END", "CANCELLED"}
    THEN LET s1 == [s EXCEPT !.isDragging = FALSE, !.isPressed = FALSE]
         IN  onPressEnd(container_handleDragEnd(s1, c))
    ELSE s

twin_handleTapGesture(s, c, state, y) ==
    IF state = "BEGAN"
    THEN onPressStart([s EXCEPT !.isPressed = TRUE])
    ELSE IF state = "END"
    THEN LET s1 == twin_onScrollToPosition(s, c, position(y, c))
         IN  onPressEnd([s1 EXCEPT !.isPressed = FALSE])
    ELSE IF state \in {"CANCELLED", "FAILED"}
    THEN onPressEnd([s EXCEPT !.isPressed = FALSE])
    ELSE s

\* the container's state as a handler finds it
TwinCur ==
    [twin EXCEPT !.scrollRequests = <<>>, !.positions = <<>>,
                 !.thrown = FALSE]

PairInit ==
    /\ impl = "hook"
    /\ alwaysVisible = FALSE
    /\ inverted = FALSE
    /\ disableGestures = FALSE
    /\ scrollRefCurrent = TRUE
    /\ fadeOutDelay = DefaultFadeOutDelay
    /\ thumbHeight = NoThumbHeight
    /\ host = FlatListHost
    /\ containerHeight = 0
    /\ contentHeight = 0
    /\ isScrollTrackVisible = FALSE
    /\ isAutoHidden = TRUE
    /\ isDragInProgress = FALSE
    /\ autoHideTimer = NoTimer
    /\ timers = <<>>
    /\ rawScrollValue = 0
    /\ isDragging = FALSE
    /\ isPressed = FALSE
    /\ dragStartPosition = 0
    /\ scrollRequests = <<>>
    /\ positions = <<>>
    /\ onPressStartCalls = 0
    /\ onPressEndCalls = 0
    /\ pressNested = FALSE
    /\ lastPressCallback = "none"
    /\ positionOutsidePress = FALSE
    /\ thrown = FALSE
    /\ mounted = TRUE
    /\ roundTrip = NoRoundTrip
    /\ lastEvent = "mount"
    /\ touch = "idle"
    /\ touchY = 0
    /\ panTranslationY = 0
    /\ panState = "UNDETERMINED"
    /\ tapState = "UNDETERMINED"
    /\ twin = Cur

\* a handler of the hook and the one of the container ran on the same event
PairHandled(r, t, ev) ==
    /\ Len(r.timers) <= MaxTimers
    /\ Len(t.timers) <= MaxTimers
    /\ Commit(r)
    /\ twin' = t
    /\ lastEvent' = ev
    /\ UNCHANGED <<config, mounted, pureVars>>

PairLayout(height) ==
    LET r == hook_onLayout(Cur, height)
    IN  /\ HostKeepsTrack(r)
        /\ PairHandled(Remount(r),
                       container_handleContainerLayout(TwinCur, TwinCur,
                                                       height),
                       "layout")
        /\ UNCHANGED pointerVars

PairContentSizeChange(height) ==
    LET r == hook_onContentSizeChange(Cur, height)
    IN  /\ HostKeepsTrack(r)
        /\ PairHandled(Remount(r),
                       container_handleContentSizeChange(TwinCur, TwinCur,
                                                         height),
                       "contentSize")
        /\ UNCHANGED pointerVars

\* the scroll event reports the sizes the host has reported by onLayout and
\* onContentSizeChange
PairScroll(y) ==
    LET ev == [y |-> y, layoutHeight |-> containerHeight,
               contentHeight |-> contentHeight]
    IN  /\ PairHandled(hook_onScroll(Cur, Cur, y),
                       container_handleScroll(TwinCur, TwinCur, ev),
                       "scroll")
        /\ UNCHANGED pointerVars

\* time passes for both, up to the next deadline of either
PairTick ==
    LET all == timers \o twin.timers
        d == Min(TimeStep, MinRemaining(all))
        Elapse(ts) == [i \in 1..Len(ts) |->
                          [ts[i] EXCEPT !.remaining = @ - d]]
    IN  /\ all # <<>>
        /\ RecognizersSettled
        /\ Due(all) = {}
        /\ timers' = Elapse(timers)
        /\ twin' = [twin EXCEPT !.timers = Elapse(@)]
        /\ UNCHANGED <<config, mounted, pureVars, containerHeight,
                       contentHeight, isScrollTrackVisible, isAutoHidden,
                       isDragInProgress, autoHideTimer, rawScrollValue,
                       trackVars, outVars, lastEvent, pointerVars>>

\* a due timer of the hook fires
PairTimerFire ==
    /\ Due(timers) # {}
    /\ LET i == CHOOSE k \in Due(timers) : \A m \in Due(timers) : k <= m
           s == [Cur EXCEPT !.timers = RemoveAt(timers, i)]
       IN  PairHandled(IF timers[i].kind = "hide" THEN hideCallback(s)
                       ELSE deferredCallback(s),
                       TwinCur,
                       IF timers[i].kind = "hide" THEN "hideTimer"
                       ELSE "deferred")
    /\ UNCHANGED pointerVars

\* a due timer of the container fires: it has hide timers only
PairTwinTimerFire ==
    /\ Due(twin.timers) # {}
    /\ LET i == CHOOSE k \in Due(twin.timers) :
                    \A m \in Due(twin.timers) : k <= m
           t == [TwinCur EXCEPT !.timers = RemoveAt(twin.timers, i)]
       IN  PairHandled(Cur, hideCallback(t), "hideTimer")
    /\ UNCHANGED pointerVars

PairTouchDown(y) ==
    /\ NoContact
    /\ TrackRendered(Cur)
    /\ touch' = "down"
    /\ touchY' = y
    /\ panTranslationY' = 0
    /\ onPressStartCalls' = 0
    /\ onPressEndCalls' = 0
    /\ pressNested' = FALSE
    /\ lastPressCallback' = "none"
    /\ positionOutsidePress' = FALSE
    /\ twin' = [twin EXCEPT !.onPressStartCalls = 0,
                            !.onPressEndCalls = 0,
                            !.pressNested = FALSE,
                            !.lastPressCallback = "none",
                            !.positionOutsidePress = FALSE]
    /\ UNCHANGED <<config, mounted, pureVars, parentVars, trackVars,
                   scrollRequests, positions, thrown, lastEvent, panState,
                   tapState>>

\* the pan recognizer reports state to both tracks
PairPan(state, translationY, ev) ==
    PairHandled(handleTrackGesture(Cur, Cur, state, touchY, translationY),
                twin_handleTrackGesture(TwinCur, TwinCur, state, touchY,
                                        translationY),
                ev)

\* the tap recognizer reports state to both tracks
PairTap(state, ev) ==
    PairHandled(handleTapGesture(Cur, Cur, state, touchY),
                twin_handleTapGesture(TwinCur, TwinCur, state, touchY),
                ev)

PairPanBegan ==
    /\ touch = "down" /\ panState = "UNDETERMINED"
    /\ PairPan("BEGAN", 0, "panBegan")
    /\ panState' = "BEGAN"
    /\ UNCHANGED <<touch, touchY, panTranslationY, tapState>>

PairTapBegan ==
    /\ touch = "down" /\ tapState = "UNDETERMINED"
    /\ PairTap("BEGAN", "tapBegan")
    /\ tapState' = "BEGAN"
    /\ UNCHANGED <<touch, touchY, panTranslationY, panState>>

PairPanActive(translationY) ==
    /\ touch = "down" /\ panState \in {"BEGAN", "ACTIVE"}
    /\ tapState # "UNDETERMINED"
    /\ PairPan("ACTIVE", translationY, "panActive")
    /\ panState' = "ACTIVE"
    /\ panTranslationY' = translationY
    /\ UNCHANGED <<touch, touchY, tapState>>

PairPanEnd ==
    /\ touch = "up" /\ panState = "ACTIVE"
    /\ PairPan("END", 0, "panEnd")
    /\ Settle("END", tapState)
    /\ UNCHANGED touchY

PairPanFailed ==
    /\ touch = "up" /\ panState = "BEGAN"
    /\ PairPan("FAILED", 0, "panFailed")
    /\ Settle("FAILED", tapState)
    /\ UNCHANGED touchY

PairPanCancelled ==
    /\ \/ touch = "cancel" /\ panState \in {"BEGAN", "ACTIVE"}
       \/ touch = "up" /\ panState = "BEGAN" /\ tapState \in {"BEGAN", "END"}
    /\ PairPan("CANCELLED", 0, "panCancelled")
    /\ Settle("CANCELLED", tapState)
    /\ UNCHANGED touchY

PairTapEnd ==
    /\ touch = "up" /\ tapState = "BEGAN"
    /\ panState \in {"BEGAN", "FAILED", "CANCELLED"}
    /\ PairTap("END", "tapEnd")
    /\ Settle(panState, "END")
    /\ UNCHANGED touchY

PairTapFailed ==
    /\ tapState = "BEGAN"
    /\ \/ touch = "down" /\ panState # "UNDETERMINED"
       \/ touch = "cancel"
       \/ touch = "up" /\ panState \in {"ACTIVE", "END"}
    /\ PairTap("FAILED", "tapFailed")
    /\ Settle(panState, "FAILED")
    /\ UNCHANGED touchY

PairNext ==
    \/ \E h \in ContainerHeights : PairLayout(h)
    \/ \E h \in ContentHeights : PairContentSizeChange(h)
    \/ \E y \in ScrollOffsets : PairScroll(y)
    \/ PairTick
    \/ PairTimerFire
    \/ PairTwinTimerFire
    \/ \E y \in TouchYs : PairTouchDown(y)
    \/ TouchUp
    \/ TouchCancel
    \/ PairPanBegan
    \/ PairTapBegan
    \/ \E t \in Translations : PairPanActive(t)
    \/ PairPanEnd
    \/ PairPanFailed
    \/ PairPanCancelled
    \/ PairTapEnd
    \/ PairTapFailed

PairSpec == PairInit /\ [][PairNext]_vars

\* =========================================================================
\* The round trip of an offset: normalized as the track shows it, then
\* mapped back as scrollToPosition does
\* =========================================================================
FracAdd(a, b) == Frac(a.num * b.den + b.num * a.den, a.den * b.den)

\* an offset k / RoundTripParts of the way through the scroll range
RoundTripInit ==
    /\ impl = "hook"
    /\ alwaysVisible = FALSE
    /\ inverted = FALSE
    /\ disableGestures = FALSE
    /\ scrollRefCurrent = TRUE
    /\ fadeOutDelay = DefaultFadeOutDelay
    /\ thumbHeight = NoThumbHeight
    /\ host = FlatListHost
    /\ containerHeight = 0
    /\ contentHeight = 0
    /\ isScrollTrackVisible = FALSE
    /\ isAutoHidden = TRUE
    /\ isDragInProgress = FALSE
    /\ autoHideTimer = NoTimer
    /\ timers = <<>>
    /\ rawScrollValue = 0
    /\ isDragging = FALSE
    /\ isPressed = FALSE
    /\ dragStartPosition = 0
    /\ scrollRequests = <<>>
    /\ positions = <<>>
    /\ onPressStartCalls = 0
    /\ onPressEndCalls = 0
    /\ pressNested = FALSE
    /\ lastPressCallback = "none"
    /\ positionOutsidePress = FALSE
    /\ thrown = FALSE
    /\ mounted = TRUE
    /\ twin = NoTwin
    /\ lastEvent = "mount"
    /\ touch = "idle"
    /\ touchY = 0
    /\ panTranslationY = 0
    /\ panState = "UNDETERMINED"
    /\ tapState = "UNDETERMINED"
    /\ \E container \in RoundTripContainers, range \in RoundTripRanges,
          k \in 0..RoundTripParts :
           roundTrip = [stage |-> "offset",
                        containerHeight |-> container,
                        contentHeight |-> FracAdd(container, range),
                        offset |-> FracMul(range, Frac(k, RoundTripParts)),
                        value |-> FracMul(range, Frac(k, RoundTripParts))]

\* the offset is normalized
Normalize ==
    /\ roundTrip.stage = "offset"
    /\ roundTrip' =
          [roundTrip EXCEPT
              !.stage = "normalized",
              !.value = getNormalizedScrollPosition(
                            roundTrip.offset, roundTrip.contentHeight,
                            roundTrip.containerHeight)]
    /\ UNCHANGED <<config, lifeVars, parentVars, trackVars, outVars,
                   lastEvent, pointerVars>>

\* the normalized position is mapped back to an offset
Denormalize ==
    /\ roundTrip.stage = "normalized"
    /\ roundTrip' =
          [roundTrip EXCEPT
              !.stage = "recovered",
              !.value = exactTargetOffset(roundTrip.value, roundTrip.contentHeight,
                                roundTrip.containerHeight)]
    /\ UNCHANGED <<config, lifeVars, parentVars, trackVars, outVars,
                   lastEvent, pointerVars>>

RoundTripNext == Normalize \/ Denormalize

RoundTripSpec == RoundTripInit /\ [][RoundTripNext]_vars

\* =========================================================================
\* Properties
\* =========================================================================
\* C1: in every interaction episode onPressStart is invoked exactly once and
\* onPressEnd exactly once, onPressStart first, never nested and never
\* skipped, counting the invocations of the pan and of the tap handler.
C1_PressCallbacksOncePerEpisode ==
    /\ ~pressNested
    /\ onPressStartCalls <= 1
    /\ onPressEndCalls <= onPressStartCalls
    /\ (touch = "done" => onPressStartCalls = 1 /\ onPressEndCalls = 1)

\* a press or drag is in progress: contact begun and reported to the pan
\* handler, not yet ended, cancelled or failed
PressInProgress == touch = "down" /\ panState \in {"BEGAN", "ACTIVE"}

HideTimers == {i \in 1..Len(timers) : timers[i].kind = "hide"}

\* scrollable as the visibility rule defines it
Scrollable == contentHeight - containerHeight > minScrollDistanceToShow

\* C2: interaction start cancels the pending hide timer and the auto-hidden
\* flag never becomes true while a press or drag is in progress, however
\* long the pointer is held still.
C2_NeverAutoHiddenWhilePressed == PressInProgress => ~isAutoHidden

\* C3: in every reachable state the rendered visibility equals
\* scrollable /\ (alwaysVisible \/ interacting \/ ~suppressed).
C3_RenderedVisibilityRule ==
    RenderedVisible(Cur) <=>
        (Scrollable /\ (alwaysVisible \/ PressInProgress \/ ~isAutoHidden))

\* C4 (as claimed): with alwaysVisible no hide timer is pending and the
\* auto-hidden flag is false in every reachable state, the initial state
\* included.
C4_AlwaysVisibleNeverSuppressed ==
    alwaysVisible => (HideTimers = {} /\ ~isAutoHidden)

\* C4 (amended): with alwaysVisible no timer is ever pending; the auto-hidden
\* flag, true at construction, is false after every scroll and press-down
\* event and is never set to true again.
C4_AlwaysVisibleNoTimer ==
    /\ [](alwaysVisible => (timers = <<>> /\ autoHideTimer = NoTimer))
    /\ [](alwaysVisible /\ lastEvent \in {"scroll", "panBegan"}
            => ~isAutoHidden)
    /\ [][alwaysVisible /\ ~isAutoHidden => ~isAutoHidden']_vars

\* a drag has ended under alwaysVisible after scrolls and a scroll-to-position
C4_Witness ==
    /\ alwaysVisible /\ ~isAutoHidden
    /\ lastEvent = "panEnd" /\ touch = "done"
    /\ TrackRendered(Cur) /\ Scrollable /\ scrollRefCurrent

\* C5: after every scroll, layout or content-size update that leaves
\* scrollable false, no hide timer is pending and the control is not rendered
\* visible.
C5_UnscrollableCancelsTimer ==
    (lastEvent \in {"scroll", "layout", "contentSize"} /\ ~Scrollable)
        => (HideTimers = {} /\ ~RenderedVisible(Cur))

\* C6: at most one hide timer is pending, and it is the one the ref holds:
\* a superseded timer never stays in the queue to fire.
C6_AtMostOneHideTimer ==
    /\ Cardinality(HideTimers) <= 1
    /\ \A i \in HideTimers : timers[i].id = autoHideTimer

\* a hide timer was superseded: the ref holds the second handle, alone pending
C6_Witness ==
    /\ impl = "container"
    /\ autoHideTimer = 2
    /\ HideTimers # {}
    /\ \A i \in HideTimers : timers[i].id = 2 /\ timers[i].remaining = ContainerFadeOutDelay

EndOfDrag == lastEvent \in {"panEnd", "panCancelled"}

\* C7: when alwaysVisible is false, right after the interaction-end event the
\* control is still visible and a hide timer is (re)scheduled (directly or
\* by the deferred callback).
C7_DragEndKeepsVisibleAndReschedules ==
    (~alwaysVisible /\ EndOfDrag)
        => /\ timers # <<>>
           /\ (Scrollable /\ TrackRendered(Cur)) => RenderedVisible(Cur)

\* C8: once suppressed is true only a scroll or an interaction-start event
\* makes it false again, and each of those two events leaves it false.
C8_SuppressedUntilScrollOrPress ==
    /\ [][(isAutoHidden /\ ~isAutoHidden')
            => lastEvent' \in {"scroll", "panBegan"}]_vars
    /\ [](lastEvent \in {"scroll", "panBegan"} => ~isAutoHidden)

\* C9: with alwaysVisible false the control is not suppressed while the
\* pending hide timer has time left, every hide timer is scheduled with
\* fadeOutDelay, and suppressed becomes true only when that timer, having
\* run for the full delay, fires.
C9_SuppressedExactlyAfterFadeOutDelay ==
    /\ [](~alwaysVisible =>
            \A i \in HideTimers :
                /\ timers[i].remaining >= 0
                /\ timers[i].remaining > 0 => ~isAutoHidden)
    /\ [][\A i \in 1..Len(timers') :
            timers'[i].kind = "hide" =>
                \/ timers'[i].remaining = fadeOutDelay
                \/ \E j \in HideTimers :
                       /\ timers[j].id = timers'[i].id
                       /\ timers'[i].remaining <= timers[j].remaining]_vars
    /\ [][(~isAutoHidden /\ isAutoHidden') =>
            \E j \in HideTimers :
                /\ timers[j].remaining = 0
                /\ timers[j].id \notin TimerIds(timers')]_vars

\* the hide timer started by a scroll ran out and fired
C9_Witness ==
    /\ ~alwaysVisible /\ isAutoHidden
    /\ lastEvent = "hideTimer"
    /\ Scrollable /\ TrackRendered(Cur)
    /\ timers = <<>>

\* the request issued by the handler that ran last
Requested == scrollRequests # <<>>

\* the last handler was given the contact coordinate touchY: the press-down
\* of the pan handler, or the release of a recognized tap
ContactHandled ==
    \/ lastEvent = "panBegan"
    \/ lastEvent = "tapEnd" /\ touch # "down"

\* C10: for a contact at y the requested offset is p * max(0, contentHeight -
\* containerHeight) with raw = clamp(y / trackLength, 0, 1) and
\* p = inverted ? 1 - raw : raw; for content 1000 over viewport 200 the ends
\* of the track give 0 and 800, swapped when inverted.
C10_ContactOffset ==
    (ContactHandled /\ Requested) =>
        LET trackLength == containerHeight
            rawNum == IF touchY < 0 THEN 0
                      ELSE IF touchY > trackLength THEN trackLength
                      ELSE touchY
            pNum == IF inverted THEN trackLength - rawNum ELSE rawNum
            range == IF contentHeight > containerHeight
                     THEN contentHeight - containerHeight ELSE 0
            offset == scrollRequests[1].offset
        IN  /\ Len(scrollRequests) = 1
            /\ offset * trackLength = pNum * range
            /\ (contentHeight = 1000 /\ containerHeight = 200) =>
                 /\ (~inverted /\ touchY = 0) => offset = 0
                 /\ (~inverted /\ touchY = 200) => offset = 800
                 /\ (inverted /\ touchY = 0) => offset = 800
                 /\ (inverted /\ touchY = 200) => offset = 0

\* an inverted press at the top of the track asked for the far end
C10_Witness ==
    /\ lastEvent = "panBegan" /\ Requested
    /\ inverted /\ touchY = 0
    /\ contentHeight = 1000 /\ containerHeight = 200
    /\ scrollRequests[1].offset = 800

\* the numerator, over the track length containerHeight, of the position the
\* specification assigns to a coordinate y: raw = clamp(y / trackLength, 0,
\* 1), p = inverted ? 1 - raw : raw
ClaimedPositionNum(y) ==
    LET trackLength == containerHeight
        rawNum == IF y < 0 THEN 0
                  ELSE IF y > trackLength THEN trackLength
                  ELSE y
    IN  IF inverted THEN trackLength - rawNum ELSE rawNum

ClaimedRange ==
    IF contentHeight > containerHeight THEN contentHeight - containerHeight
    ELSE 0

\* C11: every move event computes its target from the contact coordinate
\* recorded at the begin of the episode plus the cumulative translation: a
\* drag begun at raw 0.5 of content 1000 over viewport 200 and translated by
\* a quarter of the track requests offset 600 when not inverted.
C11_DragIsDeltaBased ==
    (lastEvent = "panActive" /\ Requested) =>
        LET offset == scrollRequests[1].offset
        IN  /\ Len(scrollRequests) = 1
            /\ offset * containerHeight =
                   ClaimedPositionNum(touchY + panTranslationY) * ClaimedRange
            /\ (contentHeight = 1000 /\ containerHeight = 200 /\ ~inverted
                    /\ 2 * touchY = containerHeight
                    /\ 4 * panTranslationY = containerHeight)
                 => offset = 600

\* the drag of the scenario: begun mid-track, moved a quarter track down
C11_Witness ==
    /\ lastEvent = "panActive" /\ Requested
    /\ contentHeight = 1000 /\ containerHeight = 200 /\ ~inverted
    /\ touchY = 100 /\ panTranslationY = 50
    /\ scrollRequests[1].offset = 600

\* the last handler passed exactly the position of coordinate y on
MatchesPosition(y) ==
    /\ Len(positions) = 1
    /\ positions[1].num * containerHeight =
           ClaimedPositionNum(y) * positions[1].den

MoveOrRelease ==
    {"panActive", "panEnd", "panFailed", "panCancelled", "tapEnd",
     "tapFailed"}

\* C12: with gestures enabled the handler of the contact-begin event itself
\* emits the position of the contact coordinate, and no move or release
\* event of an episode is handled before that begin event.
C12_BeginEmitsPosition ==
    /\ [](lastEvent = "panBegan" =>
            (~disableGestures /\ MatchesPosition(touchY)))
    /\ [][(~NoContact /\ lastEvent' \in MoveOrRelease)
            => panState # "UNDETERMINED"]_vars

\* a press at the far end of an inverted track emitted position 0 at once
C12_Witness ==
    /\ lastEvent = "panBegan" /\ panState = "BEGAN" /\ touch = "down"
    /\ inverted /\ touchY = 200 /\ containerHeight = 200
    /\ Len(positions) = 1 /\ positions[1].num = 0

GestureFree ==
    {"mount", "layout", "contentSize", "scroll", "hideTimer"}

\* C13: with disableGestures the interaction state stays idle for every
\* sequence of events: no handler of a recognizer runs, no position and no
\* scroll request is emitted, no press or drag callback is invoked, and only
\* scroll, layout and timer events have changed the state.
C13_DisabledGesturesInert ==
    disableGestures =>
        /\ touch = "idle"
        /\ panState = "UNDETERMINED" /\ tapState = "UNDETERMINED"
        /\ ~isDragging /\ ~isPressed /\ ~isDragInProgress
        /\ scrollRequests = <<>> /\ positions = <<>>
        /\ onPressStartCalls = 0 /\ onPressEndCalls = 0
        /\ lastEvent \in GestureFree

\* a rendered, scrollable track with gestures disabled faded out on its timer
C13_Witness ==
    /\ disableGestures
    /\ TrackRendered(Cur) /\ Scrollable
    /\ lastEvent = "hideTimer" /\ isAutoHidden

Inactive == containerHeight < 100 \/ contentHeight <= containerHeight

C15_TapNeverDragging ==
    panState = "BEGAN" => (~isDragging /\ ~isDragInProgress)

\* C16: a recognized tap emits exactly one position, at release, the one the
\* pan handler emits for the same coordinate and inverted flag; a tap that
\* fails or is cancelled emits none.
C16_TapEmitsOnceAtRelease ==
    /\ ContactHandled => MatchesPosition(touchY)
    /\ lastEvent = "tapFailed" => positions = <<>>

\* a tap in the middle of an inverted track on short content was recognized
C16_Witness ==
    /\ lastEvent = "tapEnd" /\ touch = "done"
    /\ inverted /\ touchY = 100
    /\ contentHeight = 220 /\ containerHeight = 200
    /\ Len(positions) = 1 /\ 2 * positions[1].num = positions[1].den

\* C17: for every scroll offset, overscroll on either side included, the
\* thumb travel-offset is inverted ? travel - travel * n : travel * n with
\* n = clamp(offset / max(1, contentHeight - containerHeight), 0, 1), and so
\* lies in [0, travel].
C17_ThumbOffset ==
    LET travel == maxThumbPosition(Cur)
        range == IF contentHeight - containerHeight >= 1
                 THEN contentHeight - containerHeight ELSE 1
        nNum == IF rawScrollValue <= 0 THEN 0
                ELSE IF rawScrollValue >= range THEN range
                ELSE rawScrollValue
        claimed == Frac(IF inverted
                        THEN travel.num * range - travel.num * nNum
                        ELSE travel.num * nNum,
                        travel.den * range)
        offset == animatedThumbPosition(Cur)
    IN  /\ offset.den > 0
        /\ offset = claimed
        /\ 0 <= offset.num
        /\ offset.num * travel.den <= travel.num * offset.den

\* an inverted, rendered thumb under overscroll beyond the range sits at 0
C17_Witness ==
    /\ lastEvent = "render" /\ TrackRendered(Cur) /\ inverted
    /\ rawScrollValue > contentHeight - containerHeight
    /\ animatedThumbPosition(Cur).num = 0
    /\ maxThumbPosition(Cur).num > 0

\* C18: when inverted, a tap at the bottom of the track requests offset 0
\* and a tap at the top the maximum offset, and once the host is at the
\* offset requested for a contact at raw coordinate r the thumb is at
\* r * travel, inverted or not.
C18_InvertedTapMatchesThumb ==
    (ContactHandled /\ Requested) =>
        LET offset == scrollRequests[1].offset
            applied == [Cur EXCEPT !.rawScrollValue = offset]
            travel == maxThumbPosition(applied)
            thumb == animatedThumbPosition(applied)
            trackLength == containerHeight
            rNum == IF touchY < 0 THEN 0
                    ELSE IF touchY > trackLength THEN trackLength
                    ELSE touchY
        IN  /\ thumb = Frac(rNum * travel.num, travel.den * trackLength)
            /\ (inverted /\ touchY = trackLength) => offset = 0
            /\ (inverted /\ touchY = 0) =>
                   offset = contentHeight - containerHeight

\* an inverted tap at the bottom of the track was recognized and asked for
\* the start of the content
C18_Witness ==
    /\ lastEvent = "tapEnd" /\ touch = "done" /\ Requested
    /\ inverted /\ touchY = 200
    /\ contentHeight = 1000 /\ containerHeight = 200
    /\ scrollRequests[1].offset = 0
    /\ animatedThumbPosition(Cur) = maxThumbPosition(Cur)

\* C19: at a fixed track length the thumb length does not decrease when
\* containerHeight / contentHeight increases from one active geometry to
\* another, and it never exceeds 0.8 * trackLength.
C19_ThumbLengthMonotonic ==
    /\ [](TrackRendered(Cur) =>
            5 * currentThumbHeight(Cur).num
                <= 4 * containerHeight * currentThumbHeight(Cur).den)
    /\ [][(/\ TrackRendered(Cur) /\ TrackRendered(Cur)'
           /\ containerHeight' = containerHeight
           /\ containerHeight * contentHeight'
                  <= containerHeight' * contentHeight)
          => currentThumbHeight(Cur).num * currentThumbHeight(Cur)'.den
                <= currentThumbHeight(Cur)'.num * currentThumbHeight(Cur).den
       ]_vars

\* a thumb held at the cap: the ratio is above 0.8
C19_Witness ==
    /\ lastEvent = "render" /\ TrackRendered(Cur)
    /\ 5 * containerHeight > 4 * contentHeight
    /\ 5 * currentThumbHeight(Cur).num
           = 4 * containerHeight * currentThumbHeight(Cur).den

\* C20: the configured thumbHeight is a floor: for every active geometry
\* with thumbHeight <= 0.8 * trackLength the thumb length is
\* clamp(containerHeight / contentHeight * trackLength, thumbHeight,
\* 0.8 * trackLength).
C20_ThumbHeightIsFloor ==
    (TrackRendered(Cur) /\ 5 * thumbHeight <= 4 * containerHeight) =>
        LET trackLength == containerHeight
            length == currentThumbHeight(Cur)
            \* the three terms over the denominator 5 * contentHeight
            dynamicNum == 5 * containerHeight * trackLength
            floorNum == 5 * thumbHeight * contentHeight
            capNum == 4 * trackLength * contentHeight
            claimedNum == Min(Max(dynamicNum, floorNum), capNum)
        IN  length = Frac(claimedNum, 5 * contentHeight)

RoundTripRange == FracSub(roundTrip.contentHeight, roundTrip.containerHeight)

\* C21 (as claimed): not inverted, every offset in [0, contentHeight -
\* containerHeight], normalized and mapped back to an offset, is recovered.
C21_RoundTripRecoversOffset ==
    roundTrip.stage = "recovered" => roundTrip.value = roundTrip.offset

\* C21 (amended): the offset is recovered whenever the content exceeds the
\* container by at least one pixel or not at all; for a range strictly
\* between 0 and 1 the normalization divides by 1 and the mapping back
\* multiplies by the range.
C21_RoundTripRecoversOffsetFromOnePixel ==
    (/\ roundTrip.stage = "recovered"
     /\ \/ RoundTripRange = FracOf(0)
        \/ FracLE(FracOf(1), RoundTripRange))
        => roundTrip.value = roundTrip.offset

\* three quarters of a range of 800 went to 0.75 and came back as 600
C21_Witness ==
    /\ roundTrip.stage = "recovered"
    /\ RoundTripRange = FracOf(800)
    /\ roundTrip.offset = FracOf(600)
    /\ roundTrip.value = FracOf(600)

\* C22: inversion is an involution on the tap-to-position mapping: the
\* inverted mapping applied to a raw coordinate, and applied again to the
\* coordinate of the position it gave, yields what the non-inverted mapping
\* yields for the raw coordinate.
C22_InversionIsInvolution ==
    (ContactHandled /\ inverted /\ Len(positions) = 1) =>
        LET once == positions[1]
            twice == position(once.num, Cur)
        IN  /\ once.den = availableHeight(Cur)
            /\ twice.den = once.den
            /\ twice.num = rawPosition(touchY, Cur)

\* an inverted contact above the track: position 1, and back to raw 0
C22_Witness ==
    /\ lastEvent = "panBegan" /\ inverted /\ touchY = -50
    /\ containerHeight = 200
    /\ Len(positions) = 1 /\ positions[1].num = 200
    /\ position(200, Cur).num = 0

\* C23: every scroll, layout and content-size callback delivered with
\* missing fields is tolerated by the hook's and by the container's
\* handlers: none throws, and a missing height is stored as 0.
C23_MalformedCallbacksTolerated ==
    /\ ~thrown
    /\ lastEvent = "malformedLayout" => containerHeight = 0
    /\ lastEvent = "malformedContentSize" => contentHeight = 0

\* the first of the four capabilities, in the documented order, a host has
ClaimedMethod(h) ==
    IF h.scrollToOffset THEN "scrollToOffset"
    ELSE IF h.scrollTo THEN "scrollTo"
    ELSE IF h.getScrollResponder = "withScrollTo"
    THEN "getScrollResponder.scrollTo"
    ELSE IF h.listRefScrollToOffset THEN "_listRef.scrollToOffset"
    ELSE NoMethod

\* C25: each scroll-to-position call with an available host issues at most
\* one scroll request, to the first capability the host offers in the order
\* scrollToOffset, scrollTo, getScrollResponder().scrollTo,
\* _listRef.scrollToOffset, and exactly one whenever the host offers any of
\* the four (a handler emits one position per call it makes).
C25_OneRequestToFirstCapability ==
    scrollRefCurrent =>
        /\ Len(scrollRequests) <= Len(positions)
        /\ \A i \in 1..Len(scrollRequests) :
               scrollRequests[i].via = ClaimedMethod(host)
        /\ ClaimedMethod(host) # NoMethod
               => Len(scrollRequests) = Len(positions)

\* a step in which the pan handler took a move, and one in which the tap
\* handler took the release: the handlers that call scroll-to-position and
\* nothing else of the parent
MoveHandled ==
    /\ panState' = "ACTIVE"
    /\ panState = "BEGAN" \/ panTranslationY' # panTranslationY
ReleaseHandled == tapState = "BEGAN" /\ tapState' = "END"

\* C24: a scroll-to-position call made while the host ref is unavailable is
\* dropped: no request is issued then or at any later time, nothing throws,
\* and the hide timer, the auto-hidden flag and the tracked scroll value
\* are as they were before the call.
C24_DetachedRefDropsCall ==
    /\ [](~scrollRefCurrent => scrollRequests = <<>> /\ ~thrown)
    /\ [][(~scrollRefCurrent /\ (MoveHandled \/ ReleaseHandled))
            => /\ positions' # <<>>
               /\ UNCHANGED <<autoHideTimer, timers, isAutoHidden,
                              rawScrollValue>>]_vars

\* a tap released on the track of a detached list while a hide timer runs
C24_Witness ==
    /\ ~scrollRefCurrent
    /\ lastEvent = "tapEnd"
    /\ Len(positions) = 1
    /\ scrollRequests = <<>>
    /\ HideTimers # {}

\* C26: in ScrollableContainer, after every scroll, layout and content-size
\* event the flag isScrollTrackVisible equals (contentHeight -
\* containerHeight > 20) for the heights stored at that moment, also after
\* an event that reports a height of 0.
C26_ContainerFlagFollowsHeights ==
    (impl = "container" /\ lastEvent \in {"scroll", "layout", "contentSize"})
        => (isScrollTrackVisible
               <=> contentHeight - containerHeight > ContainerScrollThreshold)

\* C27: every scroll request issued between the drag-start and the drag-end
\* callback has animated = FALSE, the one issued by the press-down event
\* included, and every request issued while no drag is in progress (by a
\* tap released outside a drag) has animated = TRUE.
C27_AnimatedOnlyOutsideDrag ==
    \A i \in 1..Len(scrollRequests) :
        /\ lastEvent \in {"panBegan", "panActive"}
               => ~scrollRequests[i].animated
        /\ lastEvent = "tapEnd"
               => (scrollRequests[i].animated <=> ~isDragInProgress)

\* C28: every position the pan or the tap handler emits lies in [0, 1],
\* whatever the contact coordinate and the cumulative translation, also
\* outside the track, and the offset of every scroll request lies in
\* [0, max(0, contentHeight - containerHeight)].
C28_PositionsAndOffsetsInRange ==
    /\ \A i \in 1..Len(positions) :
           /\ positions[i].den > 0
           /\ 0 <= positions[i].num
           /\ positions[i].num <= positions[i].den
    /\ \A i \in 1..Len(scrollRequests) :
           /\ 0 <= scrollRequests[i].offset
           /\ scrollRequests[i].offset <= ClaimedRange

\* a finger dragged past the end of the track of a scrollable list
C28_Witness ==
    /\ lastEvent = "panActive"
    /\ ~inverted
    /\ dragStartPosition + panTranslationY > containerHeight
    /\ Len(positions) = 1
    /\ positions[1].num = positions[1].den
    /\ Requested
    /\ ClaimedRange > 0
    /\ scrollRequests[1].offset = ClaimedRange

\* the last handler called scroll-to-position on an attached host
Called ==
    /\ lastEvent \in {"panBegan", "panActive", "tapEnd"}
    /\ scrollRefCurrent
    /\ positions # <<>>

\* C29: a scroll-to-position call with an available host sets the tracked
\* scroll value to the target offset within the call, before any scroll
\* event of the host, so that right after it the thumb travel-offset is the
\* one of the requested position: travel * p, or travel - travel * p when
\* inverted.
C29_TrackedValueFollowsCall ==
    Called =>
        LET p == positions[Len(positions)]
            travel == maxThumbPosition(Cur)
            exact == (p.num * ClaimedRange) % p.den = 0
        IN  /\ rawScrollValue * p.den <= p.num * ClaimedRange
            /\ p.num * ClaimedRange < (rawScrollValue + 1) * p.den
            /\ Requested =>
                   rawScrollValue = scrollRequests[Len(scrollRequests)].offset
            /\ exact =>
                   animatedThumbPosition(Cur) =
                       Frac(IF inverted THEN travel.num * (p.den - p.num)
                            ELSE travel.num * p.num,
                            travel.den * p.den)

\* a drag moved the thumb to three quarters of its travel before the host
\* scrolled
C29_Witness ==
    /\ Called
    /\ lastEvent = "panActive"
    /\ ~inverted
    /\ Requested
    /\ scrollRequests[1].offset = 600
    /\ rawScrollValue = 600
    /\ 4 * animatedThumbPosition(Cur).num * maxThumbPosition(Cur).den =
           3 * maxThumbPosition(Cur).num * animatedThumbPosition(Cur).den

\* C30: in ScrollableContainer no hide timer is pending from the drag-start
\* callback until the drag-end callback, also after the scroll-to-position
\* call of the press-down event and of each move event.
C30_ContainerNoHideTimerInDrag ==
    (impl = "container" /\ PressInProgress
        /\ lastEvent \in {"panBegan", "panActive"})
        => HideTimers = {}

\* C31: within an episode onPressStart is invoked before the first position
\* is emitted, and no position is emitted after the episode's onPressEnd
\* and before the next onPressStart, whether the pan handler or the tap
\* handler emits it: at every emission the press callback invoked last is
\* onPressStart.
C31_PositionsInsidePress == ~positionOutsidePress

\* C32: after the component unmounts no hide timer is pending and no timer
\* or deferred callback changes the visibility state again, whatever events
\* preceded the unmount, a drag end included.
C32_UnmountCancelsTimers ==
    /\ [](~mounted => HideTimers = {})
    /\ [][~mounted => UNCHANGED <<isAutoHidden, isScrollTrackVisible>>]_vars

\* C33: cancelling the hide timer is idempotent: with no timer pending,
\* with the handle of a timer that has fired, or a second time in a row, a
\* cancel leaves the state as a single cancel does; it removes the hide
\* timer the ref holds and nothing else, and never changes the auto-hidden
\* flag.
C33_CancelIsIdempotent ==
    LET once == clearAutoHideTimer(Cur)
        twice == clearAutoHideTimer(once)
    IN  /\ twice = once
        /\ once.isAutoHidden = isAutoHidden
        /\ once.timers = SelectSeq(timers, LAMBDA t : t.kind # "hide")
        /\ HideTimers = {} => once.timers = timers
        /\ once = [Cur EXCEPT !.timers = once.timers,
                              !.autoHideTimer = NoTimer]

\* the hide timer has fired and the ref still holds its handle, while the
\* deferred callback of a later drag end waits in the queue
C33_Witness ==
    /\ isAutoHidden
    /\ autoHideTimer # NoTimer
    /\ HideTimers = {}
    /\ timers # <<>>
    /\ clearAutoHideTimer(Cur).timers = timers
    /\ clearAutoHideTimer(Cur).autoHideTimer = NoTimer

\* C34: with alwaysVisible false, in every reachable state where the
\* control is rendered visible and no interaction is in progress, a hide
\* timer or the deferred re-schedule is pending, so that the control is
\* hidden in the end when no further event arrives.
C34_VisibleHasTimerPending ==
    (~alwaysVisible /\ NoContact /\ RenderedVisible(Cur)) => timers # <<>>

\* C35: every drag start is matched by a drag end: once a gesture episode
\* has finished, also one whose pan recognizer failed because the touch
\* lifted without moving, the dragging flag of the track and the one of its
\* parent are false again.
C35_DragEndsWithEpisode ==
    touch = "done" => (~isDragging /\ ~isDragInProgress)

\* C36: the zero-delay callback that the hook's drag-end handler defers
\* never starts a hide timer during a later interaction: when it runs after
\* a new press has begun, no hide timer is pending while that press is in
\* progress.
C36_DeferredNotDuringPress ==
    (impl = "hook" /\ lastEvent = "deferred" /\ PressInProgress)
        => HideTimers = {}

\* C37: in every reachable state of useScrollTrack the returned isVisible
\* is true exactly when the returned ScrollTrack element is not null and is
\* given visible = true; in particular isVisible is false whenever
\* containerHeight < 100.
C37_IsVisibleMatchesTrack ==
    impl = "hook" =>
        /\ hook_isVisible(Cur) <=> (TrackRendered(Cur) /\ hook_visible(Cur))
        /\ containerHeight < MinTrackLength => ~hook_isVisible(Cur)

\* C38: whenever scrollable is false (contentHeight - containerHeight <=
\* minScrollDistanceToShow) no pointer event on the track produces a scroll
\* request or an interaction callback: no handler of the pan or of the tap
\* recognizer leaves a request, a position or a press callback.
C38_UnscrollableTrackInert ==
    (~Scrollable /\ lastEvent \in {"panBegan", "tapBegan"} \cup MoveOrRelease)
        => /\ ~Requested
           /\ positions = <<>>
           /\ onPressStartCalls = 0
           /\ onPressEndCalls = 0

\* no timer of the hook or of the container is due: every callback whose
\* time has come has run
Quiescent == Due(timers) = {} /\ Due(twin.timers) = {}

\* C39: ScrollableContainer and useScrollTrack with default options are
\* observably equivalent: given the same scroll, layout, content-size,
\* press, drag and timer events, the track is rendered visible by the one
\* exactly when it is by the other, and each handler issues the same scroll
\* requests (offset and animated flag) in both.
C39_ContainerEquivalentToHook ==
    Quiescent =>
        /\ RenderedVisible(Cur)
              <=> (TrackRendered(twin) /\ isTrackCurrentlyVisible(twin))
        /\ Len(twin.scrollRequests) = Len(scrollRequests)
        /\ \A i \in 1..Len(scrollRequests) :
              /\ twin.scrollRequests[i].offset = scrollRequests[i].offset
              /\ twin.scrollRequests[i].animated = scrollRequests[i].animated

====
